---- MODULE Spec2Model ----
(***************************************************************************)
(* Model of FlowRAGSystem (src/App.py): the document session held by the   *)
(* process-wide rag_system object, the process_pdf pipeline (extract,      *)
(* chunk, embed, index) and the search pipeline (embed, index search,      *)
(* result loop), together with the Gradio handlers that call them.         *)
(*                                                                         *)
(* Texts are sequences of tokens.  A page text is the sequence of its      *)
(* whitespace-delimited words (what text.split() returns); a question is   *)
(* the sequence of its characters, 0 being the blank character.            *)
(* Scores are integers in units of 1/10000 (5000 is 0.5, 3000 is 0.3).     *)
(* An optional value (None or a value) is a sequence of length 0 or 1.     *)
(***************************************************************************)
EXTENDS Integers, Sequences, FiniteSets

VARIABLES
    is_ready,        \* self.is_ready; self.model is loaded exactly when it holds
    index,           \* self.index: None, or the rows of the IndexFlatIP
    chunks,          \* self.chunks: None, or the chunk list
    current_file,    \* self.current_file: None, or the source name
    p_pc,            \* position of the process_file handler
    pdf_file,        \* its argument
    pages_data,      \* local of process_pdf
    page_i,          \* position of "for page in pages_data" (1-based)
    start,           \* local of process_pdf
    embeddings,      \* local of process_pdf
    p_result,        \* what process_file returned
    status,          \* what update_status returned last
    s_pc,            \* position of the search_query handler
    question,        \* its arguments
    top_k,
    hits,            \* (scores[0], indices[0]) returned by self.index.search
    hit_i,           \* position of the result loop (0-based, as enumerate)
    results,         \* local of search
    s_result,        \* what search_query returned
    everSucceeded,   \* history: some process_pdf call has returned success
    pre              \* history: the session when the running process_pdf was called

vars == <<is_ready, index, chunks, current_file, p_pc, pdf_file, pages_data,
          page_i, start, embeddings, p_result, status, s_pc, question, top_k,
          hits, hit_i, results, s_result, everSucceeded, pre>>

sessionVars == <<is_ready, index, chunks, current_file>>
processVars == <<p_pc, pdf_file, pages_data, page_i, start, embeddings,
                 p_result, status, everSucceeded, pre>>
searchVars  == <<s_pc, question, top_k, hits, hit_i, results, s_result>>

None == <<>>
Some(x) == <<x>>
IsNone(o) == Len(o) = 0
Min(a, b) == IF a <= b THEN a ELSE b

\* ---------------------------------------------------------------- bounds
MaxWords == 370     \* longest page of the chunker inputs
MaxK == 3           \* largest top_k a query is issued with
MaxChar == 3        \* number of distinct non-blank characters of a question

\* ------------------------------------------------------ program constants
chunk_size == 200
overlap == 40
ExcellentMin == 5000
GoodMin == 3000

\* ------------------------------------------------------------- chunking
\* the stride of the window: "start += chunk_size - overlap"
StrideNoOverlap == chunk_size
Stride == chunk_size - overlap

\* words[start:end] of Python, for 0 <= start
Slice(words, from, to) == SubSeq(words, from + 1, Min(to, Len(words)))

\* the dictionary appended at lines 79-83 for the window that begins at s
MakeChunk(page, s) ==
    LET chunk_words == Slice(page.words, s, s + chunk_size)
    IN [text |-> chunk_words, page |-> page.page, word_count |-> Len(chunk_words)]

\* the words of page number p of a file: distinct tokens, distinct across
\* the pages and the files of the model
WordsOf(fid, p, n) == [i \in 1..n |-> fid * 100000 + p * 1000 + i]

\* lines 52-58: the pages with a non-blank text, numbered from 1 in file order
RECURSIVE ExtractPages(_, _, _)
ExtractPages(fid, counts, i) ==
    IF i > Len(counts) THEN <<>>
    ELSE IF counts[i] > 0
         THEN <<[page |-> i, words |-> WordsOf(fid, i, counts[i])]>>
              \o ExtractPages(fid, counts, i + 1)
         ELSE ExtractPages(fid, counts, i + 1)

\* ---------------------------------------------------- embedder and index
\* Stand-in for the SentenceTransformer: a text is mapped to one of NumDirs
\* unit vectors, named by its direction 0..NumDirs-1; the same text always
\* gets the same vector.
NumDirs == 12
Encode(text) == IF Len(text) = 0 THEN 0 ELSE (text[1] + 5 * Len(text)) % NumDirs

\* inner product of two unit vectors, by the angle between their directions
Angle(u, v) == LET d == IF u >= v THEN u - v ELSE v - u IN Min(d, NumDirs - d)
InnerProduct(u, v) ==
    CASE Angle(u, v) = 0 -> 10000
      [] Angle(u, v) = 1 -> 5000
      [] Angle(u, v) = 2 -> 4999
      [] Angle(u, v) = 3 -> 3000
      [] Angle(u, v) = 4 -> 2999
      [] Angle(u, v) = 5 -> 0
      [] OTHER -> -10000

\* the rows index.add stores for the embeddings of chunk_texts; src records
\* the text each vector was computed from (history, not read by the program)
RowsOf(embs, chunk_list) ==
    [i \in 1..Len(embs) |-> [vec |-> embs[i], src |-> chunk_list[i].text]]

\* what IndexFlatIP.search pads with when it holds fewer than k rows
PadHit == [score |-> -100000, idx |-> -1, src |-> <<>>]

\* row i ranks before row j: higher inner product, then lower row number
Before(rows, q, i, j) ==
    \/ InnerProduct(q, rows[i].vec) > InnerProduct(q, rows[j].vec)
    \/ /\ InnerProduct(q, rows[i].vec) = InnerProduct(q, rows[j].vec)
       /\ i <= j

RECURSIVE TopRows(_, _, _, _)
TopRows(rows, q, k, taken) ==
    IF k = 0 THEN <<>>
    ELSE IF taken = DOMAIN rows THEN <<PadHit>> \o TopRows(rows, q, k - 1, taken)
    ELSE LET best == CHOOSE i \in DOMAIN rows \ taken :
                         \A j \in DOMAIN rows \ taken : Before(rows, q, i, j)
         IN <<[score |-> InnerProduct(q, rows[best].vec), idx |-> best - 1,
               src |-> rows[best].src]>>
            \o TopRows(rows, q, k - 1, taken \cup {best})

\* self.index.search(query_embedding, top_k): exactly k (score, index) pairs,
\* best first, 0-based row numbers
IndexSearch(rows, q, k) == TopRows(rows, q, k, {})

\* lines 128-137: the similarity label of a score
BucketStrict(score) ==
    IF score > ExcellentMin THEN "Excellent"
    ELSE IF score > GoodMin THEN "Good"
    ELSE "Weak"
Bucket(score) ==
    IF score >= ExcellentMin THEN "Excellent"
    ELSE IF score >= GoodMin THEN "Good"
    ELSE "Weak"

\* ------------------------------------------------------------------ inputs
NoFile    == [kind |-> "none",  name |-> "",      fid |-> 0, counts |-> <<>>,      readable |-> FALSE]
BytesFile == [kind |-> "bytes", name |-> "",      fid |-> 0, counts |-> <<>>,      readable |-> FALSE]
FileA     == [kind |-> "file",  name |-> "A.pdf", fid |-> 1, counts |-> <<170>>,   readable |-> TRUE]
FileB     == [kind |-> "file",  name |-> "B.pdf", fid |-> 2, counts |-> <<0, 30>>, readable |-> TRUE]
FileC     == [kind |-> "file",  name |-> "C.pdf", fid |-> 3, counts |-> <<0>>,     readable |-> TRUE]
FileD     == [kind |-> "file",  name |-> "D.pdf", fid |-> 4, counts |-> <<>>,      readable |-> FALSE]
Files == {NoFile, BytesFile, FileA, FileB, FileC, FileD}

\* the questions a user submits: empty, blank, and one-character questions
Questions == {<<>>, <<0>>, <<0, 0>>} \cup {<<c>> : c \in 1..MaxChar}
IsBlank(q) == \A i \in DOMAIN q : q[i] = 0

\* ----------------------------------------------------------------- state
Session == [index |-> index, chunks |-> chunks, current_file |-> current_file]

NoStatus == [file |-> None, chunk_count |-> None, vector_count |-> None]

\* FlowRAGSystem.__init__ followed by initialize(), which either loads the
\* model and sets is_ready or leaves both unset; update_status() has been
\* evaluated once for the page
Init ==
    /\ is_ready \in BOOLEAN
    /\ index = None
    /\ chunks = None
    /\ current_file = None
    /\ p_pc = "idle"
    /\ pdf_file = NoFile
    /\ pages_data = <<>>
    /\ page_i = 0
    /\ start = 0
    /\ embeddings = <<>>
    /\ p_result = "none"
    /\ status = NoStatus
    /\ s_pc = "idle"
    /\ question = <<>>
    /\ top_k = 0
    /\ hits = <<>>
    /\ hit_i = 0
    /\ results = <<>>
    /\ s_result = "none"
    /\ everSucceeded = FALSE
    /\ pre = [index |-> None, chunks |-> None, current_file |-> None]

\* --------------------------------------------- process_file / process_pdf
\* the call returns with outcome r; the locals die
P_Return(r) ==
    /\ p_pc' = "then"
    /\ p_result' = r
    /\ pages_data' = <<>>
    /\ page_i' = 0
    /\ start' = 0
    /\ embeddings' = <<>>

\* process_file (306-311) and process_pdf up to the text check (40-62)
P_Call ==
    /\ p_pc = "idle"
    /\ \E f \in Files :
        /\ pdf_file' = f
        /\ pre' = Session
        /\ IF f.kind = "none"
           THEN P_Return("no_file") /\ UNCHANGED current_file
           ELSE IF f.kind = "bytes"
           THEN P_Return("error") /\ UNCHANGED current_file
           ELSE /\ current_file' = Some(f.name)
                /\ IF ~f.readable
                   THEN P_Return("error")
                   ELSE IF ExtractPages(f.fid, f.counts, 1) = <<>>
                   THEN P_Return("no_text")
                   ELSE /\ pages_data' = ExtractPages(f.fid, f.counts, 1)
                        /\ p_pc' = "reset"
                        /\ UNCHANGED <<page_i, start, embeddings, p_result>>
    /\ UNCHANGED <<is_ready, index, chunks, status, everSucceeded>>
    /\ UNCHANGED searchVars

\* line 65 and the entry into the first page (67-73)
P_Reset ==
    /\ p_pc = "reset"
    /\ chunks' = Some(<<>>)
    /\ page_i' = 1
    /\ start' = 0
    /\ p_pc' = "loop"
    /\ UNCHANGED <<is_ready, index, current_file, pdf_file, pages_data,
                   embeddings, p_result, status, everSucceeded, pre>>
    /\ UNCHANGED searchVars

\* one iteration of "while start < len(words)" (74-85)
P_Chunk ==
    /\ p_pc = "loop"
    /\ start < Len(pages_data[page_i].words)
    /\ LET c == MakeChunk(pages_data[page_i], start)
       IN chunks' = IF c.word_count > 0 THEN Some(Append(chunks[1], c)) ELSE chunks
    /\ start' = start + Stride
    /\ UNCHANGED <<is_ready, index, current_file, p_pc, pdf_file, pages_data,
                   page_i, embeddings, p_result, status, everSucceeded, pre>>
    /\ UNCHANGED searchVars

\* the while loop ends: the next page (66-73), or the end of the for loop
P_NextPage ==
    /\ p_pc = "loop"
    /\ start >= Len(pages_data[page_i].words)
    /\ IF page_i < Len(pages_data)
       THEN /\ page_i' = page_i + 1
            /\ start' = 0
            /\ UNCHANGED p_pc
       ELSE /\ p_pc' = "encode"
            /\ UNCHANGED <<page_i, start>>
    /\ UNCHANGED <<is_ready, index, chunks, current_file, pdf_file, pages_data,
                   embeddings, p_result, status, everSucceeded, pre>>
    /\ UNCHANGED searchVars

\* lines 88-94 and 101-103: self.model.encode(chunk_texts) raises when the
\* model was never loaded, and may raise otherwise
P_Encode ==
    /\ p_pc = "encode"
    /\ IF Len(chunks[1]) = 0
       THEN P_Return("no_chunks")
       ELSE \E raises \in BOOLEAN :
            IF raises \/ ~is_ready
            THEN P_Return("error")
            ELSE /\ embeddings' = [i \in 1..Len(chunks[1]) |-> Encode(chunks[1][i].text)]
                 /\ p_pc' = "index"
                 /\ UNCHANGED <<pages_data, page_i, start, p_result>>
    /\ UNCHANGED <<is_ready, index, chunks, current_file, pdf_file, status,
                   everSucceeded, pre>>
    /\ UNCHANGED searchVars

\* lines 97-98: self.index = faiss.IndexFlatIP(dimension), an empty index
P_NewIndex ==
    /\ p_pc = "index"
    /\ \E raises \in BOOLEAN :
        IF raises
        THEN P_Return("error") /\ UNCHANGED index
        ELSE /\ index' = Some(<<>>)
             /\ p_pc' = "add"
             /\ UNCHANGED <<pages_data, page_i, start, embeddings, p_result>>
    /\ UNCHANGED <<is_ready, chunks, current_file, pdf_file, status,
                   everSucceeded, pre>>
    /\ UNCHANGED searchVars

\* lines 99-100: normalize_L2 and self.index.add(embeddings)
P_Add ==
    /\ p_pc = "add"
    /\ \E raises \in BOOLEAN :
        IF raises
        THEN P_Return("error") /\ UNCHANGED index
        ELSE /\ index' = Some(index[1] \o RowsOf(embeddings, chunks[1]))
             /\ p_pc' = "cleanup"
             /\ UNCHANGED <<pages_data, page_i, start, embeddings, p_result>>
    /\ UNCHANGED <<is_ready, chunks, current_file, pdf_file, status,
                   everSucceeded, pre>>
    /\ UNCHANGED searchVars

\* lines 106-108: os.unlink(pdf_path) and the success message
P_Cleanup ==
    /\ p_pc = "cleanup"
    /\ \E raises \in BOOLEAN :
        IF raises
        THEN P_Return("error") /\ UNCHANGED everSucceeded
        ELSE P_Return("ok") /\ everSucceeded' = TRUE
    /\ UNCHANGED <<is_ready, index, chunks, current_file, pdf_file, status, pre>>
    /\ UNCHANGED searchVars

\* update_status (253-263), chained to process_file with .then (320-328)
UpdateStatus ==
    IF IsNone(current_file) \/ current_file = Some("")
    THEN NoStatus
    ELSE IF IsNone(chunks) \/ chunks = Some(<<>>)
    THEN [file |-> current_file, chunk_count |-> None, vector_count |-> None]
    ELSE IF IsNone(index)
    THEN [file |-> current_file, chunk_count |-> Some(Len(chunks[1])),
          vector_count |-> None]
    ELSE [file |-> current_file, chunk_count |-> Some(Len(chunks[1])),
          vector_count |-> Some(Len(index[1]))]

NoSession == [index |-> None, chunks |-> None, current_file |-> None]

P_Status ==
    /\ p_pc = "then"
    /\ status' = UpdateStatus
    /\ p_pc' = "idle"
    /\ pdf_file' = NoFile
    /\ p_result' = "none"
    /\ pre' = NoSession
    /\ UNCHANGED <<is_ready, index, chunks, current_file, pages_data,
                   page_i, start, embeddings, everSucceeded>>
    /\ UNCHANGED searchVars

\* ------------------------------------------------- search_query / search
\* the call returns with outcome r
S_Return(r) ==
    /\ s_pc' = "done"
    /\ s_result' = r

\* the check search_query makes before it calls search (314)
QuestionMissing(q) == Len(q) = 0

\* search_query (313-317) and the guard of search (115-116)
S_Call ==
    /\ s_pc = "idle"
    /\ \E q \in Questions, k \in 1..MaxK :
        /\ question' = q
        /\ top_k' = k
        /\ hits' = <<>>
        /\ hit_i' = 0
        /\ results' = <<>>
        /\ IF QuestionMissing(q)
           THEN S_Return("empty_query")
           ELSE IF ~is_ready \/ IsNone(index)
           THEN S_Return("not_ready")
           ELSE /\ s_pc' = "search"
                /\ s_result' = "none"
    /\ UNCHANGED sessionVars
    /\ UNCHANGED processVars

\* lines 119-120: the question is embedded and the index searched
S_Search ==
    /\ s_pc = "search"
    /\ \E raises \in BOOLEAN :
        IF raises
        THEN S_Return("error") /\ UNCHANGED <<hits, hit_i>>
        ELSE /\ hits' = IndexSearch(index[1], Encode(question), top_k)
             /\ hit_i' = 0
             /\ s_pc' = "loop"
             /\ UNCHANGED s_result
    /\ UNCHANGED <<question, top_k, results>>
    /\ UNCHANGED sessionVars
    /\ UNCHANGED processVars

\* one iteration of the result loop (123-151)
S_Hit ==
    /\ s_pc = "loop"
    /\ hit_i < Len(hits)
    /\ LET h == hits[hit_i + 1]
       IN results' =
            IF 0 <= h.idx /\ h.idx < Len(chunks[1])
            THEN Append(results, [rank |-> hit_i + 1, score |-> h.score,
                                  idx |-> h.idx, chunk |-> chunks[1][h.idx + 1],
                                  sim_text |-> Bucket(h.score), src |-> h.src])
            ELSE results
    /\ hit_i' = hit_i + 1
    /\ UNCHANGED <<s_pc, question, top_k, hits, s_result>>
    /\ UNCHANGED sessionVars
    /\ UNCHANGED processVars

\* lines 153-156
S_Finish ==
    /\ s_pc = "loop"
    /\ hit_i >= Len(hits)
    /\ IF results = <<>> THEN S_Return("no_results") ELSE S_Return("results")
    /\ UNCHANGED <<question, top_k, hits, hit_i, results>>
    /\ UNCHANGED sessionVars
    /\ UNCHANGED processVars

\* the handler has returned; its locals die
S_Idle ==
    /\ s_pc = "done"
    /\ s_pc' = "idle"
    /\ hits' = <<>>
    /\ hit_i' = 0
    /\ results' = <<>>
    /\ question' = <<>>
    /\ top_k' = 0
    /\ s_result' = "none"
    /\ UNCHANGED sessionVars
    /\ UNCHANGED processVars

\* --------------------------------------------------------- specifications
ProcessIdle == p_pc = "idle"
SearchIdle == s_pc = "idle"

\* handlers run one at a time, each to completion
NextSeq ==
    \/ SearchIdle /\ P_Call
    \/ SearchIdle /\ P_Reset
    \/ SearchIdle /\ P_Chunk
    \/ SearchIdle /\ P_NextPage
    \/ SearchIdle /\ P_Encode
    \/ SearchIdle /\ P_NewIndex
    \/ SearchIdle /\ P_Add
    \/ SearchIdle /\ P_Cleanup
    \/ SearchIdle /\ P_Status
    \/ ProcessIdle /\ S_Call
    \/ ProcessIdle /\ S_Search
    \/ ProcessIdle /\ S_Hit
    \/ ProcessIdle /\ S_Finish
    \/ ProcessIdle /\ S_Idle

Spec == Init /\ [][NextSeq]_vars

\* the process handler and the search handler run in two threads
Next ==
    \/ P_Call \/ P_Reset \/ P_Chunk \/ P_NextPage \/ P_Encode
    \/ P_NewIndex \/ P_Add \/ P_Cleanup \/ P_Status
    \/ S_Call \/ S_Search \/ S_Hit \/ S_Finish \/ S_Idle

SpecConc == Init /\ [][Next]_vars

\* ------------------------------------------------ the chunker on its own
\* page texts of every length up to MaxWords, and two-page documents (the
\* second page of the file had no text) over the lengths where the number
\* of windows changes
EdgeLens == {1, Stride, Stride + 1, chunk_size, chunk_size + 1, MaxWords}
ChunkInputs ==
    {<<[page |-> 1, words |-> WordsOf(0, 1, n)]>> : n \in 1..MaxWords}
    \cup {<<[page |-> 1, words |-> WordsOf(0, 1, n)],
            [page |-> 3, words |-> WordsOf(0, 3, m)]>> : n \in EdgeLens, m \in EdgeLens}

\* process_pdf has reached line 65 with pages_data read from the file
InitChunk ==
    /\ is_ready = TRUE
    /\ index = None
    /\ chunks = None
    /\ current_file = Some("A.pdf")
    /\ p_pc = "reset"
    /\ pdf_file = FileA
    /\ pages_data \in ChunkInputs
    /\ page_i = 0
    /\ start = 0
    /\ embeddings = <<>>
    /\ p_result = "none"
    /\ status = NoStatus
    /\ s_pc = "idle"
    /\ question = <<>>
    /\ top_k = 0
    /\ hits = <<>>
    /\ hit_i = 0
    /\ results = <<>>
    /\ s_result = "none"
    /\ everSucceeded = FALSE
    /\ pre = NoSession

NextChunk == P_Reset \/ P_Chunk \/ P_NextPage

\* the loop is sequential code: it keeps running until it exits
SpecChunk == InitChunk /\ [][NextChunk]_vars /\ WF_vars(NextChunk)

ChunkingDone == p_pc = "encode"

\* the chunks of the running call that were cut from page number p
ChunksOfPage(p) == SelectSeq(chunks[1], LAMBDA c : c.page = p)

\* ================================================================= claims
FailedCall == p_pc = "then" /\ p_result \notin {"ok", "none"}
Returned == s_pc = "done"
Ntotal == Len(index[1])
DocOf(text) == text[1] \div 100000

\* C1: when a process_pdf call fails after an earlier one succeeded, the
\* session it leaves (chunk list, indexed vectors, source name) is the
\* session it was called in.
C1_FailedCallLeavesSession ==
    (FailedCall /\ everSucceeded) =>
        /\ chunks = pre.chunks
        /\ index = pre.index
        /\ current_file = pre.current_file

\* C2: after the first successful process_pdf, whenever a query or the
\* status accessor can run, the session holds as many chunks as the index
\* holds vectors.
C2_ChunksMatchVectors ==
    (everSucceeded /\ p_pc \in {"idle", "then"}) => Len(chunks[1]) = Ntotal

\* C3: a query that runs while process_pdf replaces a built session pairs
\* every row the index returned with a chunk of the same document.
C3_NoHalfReplacedSession ==
    \A i \in DOMAIN results :
        DocOf(results[i].chunk.text) = DocOf(results[i].src)

\* C4: while no process_pdf call has succeeded, a query with a question to
\* ask is rejected as not ready before it is embedded or searched and
\* returns no results; after a success the session never is empty again.
C4_QueryNeedsSuccess ==
    /\ (~everSucceeded /\ s_pc # "idle" /\ ~IsBlank(question)) =>
          /\ Returned
          /\ s_result = "not_ready"
          /\ results = <<>>
    /\ everSucceeded => (is_ready /\ ~IsNone(index))

\* C5: in a session that was built, a query that is answered returns exactly
\* min(k, N) results for the N indexed vectors, ranked 1, 2, ... in the
\* order the index returned them, by non-increasing score and, among equal
\* scores, ascending row, each with the chunk at its row.
C5_TopKResults ==
    (everSucceeded /\ Returned /\ s_result \in {"results", "no_results"}) =>
        /\ Len(results) = Min(top_k, Ntotal)
        /\ \A i \in DOMAIN results :
              /\ results[i].rank = i
              /\ results[i].idx = hits[i].idx
              /\ results[i].score = hits[i].score
              /\ results[i].idx + 1 \in DOMAIN chunks[1]
              /\ results[i].chunk = chunks[1][results[i].idx + 1]
        /\ \A i, j \in DOMAIN results :
              i < j => \/ results[i].score > results[j].score
                       \/ /\ results[i].score = results[j].score
                          /\ results[i].idx < results[j].idx

\* C6: a question that is empty once its blanks are trimmed is rejected: it
\* is never embedded or searched against a built index and gets no results.
C6_BlankQuestionRejected ==
    (everSucceeded /\ s_pc # "idle" /\ IsBlank(question)) =>
        /\ s_pc = "done"
        /\ s_result = "empty_query"
        /\ results = <<>>

\* C7: the label of every result is decided by its score alone: Excellent
\* exactly from 0.5 up, Good exactly from 0.3 up to below 0.5, Weak exactly
\* below 0.3.
C7_BucketByScore ==
    \A i \in DOMAIN results :
        /\ results[i].sim_text = "Excellent" <=> results[i].score >= 5000
        /\ results[i].sim_text = "Good" <=>
              (results[i].score >= 3000 /\ results[i].score < 5000)
        /\ results[i].sim_text = "Weak" <=> results[i].score < 3000

\* a returned result list with a score of exactly 0.5 and one of exactly 0.3
C7_Witness ==
    /\ Returned
    /\ \E i \in DOMAIN results :
          results[i].score = 5000 /\ results[i].sim_text = "Excellent"
    /\ \E i \in DOMAIN results :
          results[i].score = 3000 /\ results[i].sim_text = "Good"

\* C8: a page of at most 200 words yields exactly one chunk, which holds all
\* of its words and counts them.
C8_ShortPageOneChunk ==
    ChunkingDone =>
        \A n \in DOMAIN pages_data :
            Len(pages_data[n].words) <= 200 =>
                /\ Len(ChunksOfPage(pages_data[n].page)) = 1
                /\ ChunksOfPage(pages_data[n].page)[1].text = pages_data[n].words
                /\ ChunksOfPage(pages_data[n].page)[1].word_count
                      = Len(pages_data[n].words)

\* C9: two consecutive chunks of one page share exactly 40 words: the last
\* 40 words of the earlier are the first 40 words of the later.
LastWords(text, n) == SubSeq(text, Len(text) - n + 1, Len(text))
FirstWords(text, n) == SubSeq(text, 1, n)
C9_ConsecutiveShareOverlap ==
    ChunkingDone =>
        \A i \in 1..(Len(chunks[1]) - 1) :
            chunks[1][i].page = chunks[1][i + 1].page =>
                /\ Len(chunks[1][i + 1].text) >= 40
                /\ Len(chunks[1][i].text) >= 40
                /\ LastWords(chunks[1][i].text, 40) = FirstWords(chunks[1][i + 1].text, 40)

\* C10: the chunking loop ends, and the chunk list then is, page after page,
\* the windows words[j*160 : min(j*160 + 200, L)] for j = 0, 1, ... while
\* j*160 < L, each with its page number and the number of its words, which
\* is between 1 and 200.
WindowCount(L) == (L + 159) \div 160
WindowsOf(page) ==
    [j \in 1..WindowCount(Len(page.words)) |->
        [text |-> SubSeq(page.words, (j - 1) * 160 + 1,
                         Min((j - 1) * 160 + 200, Len(page.words))),
         page |-> page.page,
         word_count |-> Min((j - 1) * 160 + 200, Len(page.words)) - (j - 1) * 160]]
RECURSIVE WindowsOfPages(_, _)
WindowsOfPages(pages, n) ==
    IF n > Len(pages) THEN <<>>
    ELSE WindowsOf(pages[n]) \o WindowsOfPages(pages, n + 1)
C10_ChunkListIsWindows ==
    <>(/\ ChunkingDone
       /\ chunks = Some(WindowsOfPages(pages_data, 1))
       /\ \A i \in DOMAIN chunks[1] :
             chunks[1][i].word_count >= 1 /\ chunks[1][i].word_count <= 200)

\* two pages were chunked, one of them into three windows
C10_Witness ==
    /\ ChunkingDone
    /\ Len(pages_data) = 2
    /\ Len(ChunksOfPage(1)) = 3
    /\ Len(ChunksOfPage(3)) = 2

====
